---- MODULE Spec2Model ----
(***************************************************************************)
(* Model of frontend/script.js: a browser view controller that fetches     *)
(* players, matches and match statistics from an HTTP API and renders      *)
(* them into DOM containers.                                               *)
(*                                                                         *)
(* A DOM container is a sequence of elements; an element is a record       *)
(* [tag, cls, kids] where kids is the sequence of its text cells.          *)
(* An HTTP response is [kind, net, ok, body, err]: net is FALSE when       *)
(* fetch() rejects (err is then the error's message), ok is Response.ok,   *)
(* and body is [json, items]: json = "none" when res.json() rejects,       *)
(* "object" for a JSON object that is no array, "array" for an array       *)
(* (items), "record" for a statistics object (items holds it).             *)
(*                                                                         *)
(* Every async function is cut at its awaits: issuing a request puts a     *)
(* record into inflight, and a response action runs the continuation up to *)
(* the function's end, which is one uninterrupted event-loop turn.  The    *)
(* two awaits of a read (fetch, then res.json()) are one response action:  *)
(* the code between them writes nothing.  The body of the POST is not      *)
(* modelled: nothing on the page depends on it.                            *)
(*                                                                         *)
(* Spec runs the whole page, every request answered with one response of   *)
(* each outcome.  SpecPlayers and SpecMatches run one half of the page,    *)
(* answered with every list up to MaxPlayers or MaxMatches records, while  *)
(* the requests of the other half stay unanswered.                         *)
(***************************************************************************)
EXTENDS Integers, Sequences, FiniteSets, TLC

VARIABLES
    loaded,            \* DOMContentLoaded has fired
    playersTableBody,  \* children of #players-table-body
    playerForm,        \* field values of #player-form
    matchesContainer,  \* children of #matches-container
    matchSelect,       \* options of #match-select
    selectedValue,     \* matchSelect.value
    statsDisplay,      \* children of #stats-display
    inflight,          \* requests issued and not yet answered
    alerts,            \* messages passed to alert(), in order
    uncaught,          \* number of errors that escaped a handler
    issued,            \* per operation, number of requests issued
    submits,           \* number of submit events handled
    changes,           \* number of change events handled
    createOk,          \* POST responses handled that were successful
    createFail,        \* POST responses handled that threw
    resets,            \* number of playerForm.reset() calls
    latestOutcome,     \* per container, outcome of the most recently issued request
    lastHandled        \* per operation, the response handled last

vars == <<loaded, playersTableBody, playerForm, matchesContainer, matchSelect,
          selectedValue, statsDisplay, inflight, alerts, uncaught, issued,
          submits, changes, createOk, createFail, resets, latestOutcome,
          lastHandled>>

-----------------------------------------------------------------------------
(* Bounds of the model *)

MaxPlayers == 2
MaxMatches == 2
MaxSubmits == 1
MaxChanges == 2

-----------------------------------------------------------------------------
(* API records *)

Player(id, name, age, position, jersey, injury) ==
    [id |-> id, name |-> name, age |-> age, position |-> position,
     jersey_number |-> jersey, injury_status |-> injury]

An == Player(1, "An", 21, "GK", 1, "FIT")
Binh == Player(2, "Binh", 30, "FW", 9, "INJURED")
Players == {An, Binh}

Match(id, opponent, date, venue, done, ours, theirs) ==
    [id |-> id, opponent_name |-> opponent, match_date |-> date,
     venue |-> venue, is_completed |-> done, our_score |-> ours,
     opponent_score |-> theirs]

Hanoi == Match(1, "Hanoi", "2024-01-05", "Home", TRUE, 3, 1)
Hue == Match(2, "Hue", "2024-03-09", "Away", FALSE, 0, 0)
Vinh == Match(3, "Vinh", "2024-02-01", "Away", TRUE, 0, 2)
Matches == {Hanoi, Hue, Vinh}

StatFields == <<"expected_goals", "shots_on_target", "ball_possession_percent",
                "total_passes", "successful_passes", "pass_success_rate",
                "interceptions", "successful_tackles", "aerial_disputes_won",
                "total_fouls", "yellow_cards", "red_cards">>

\* a MatchStatistics record whose twelve values are pairwise different
StatsRecord(base) ==
    [f \in { StatFields[i] : i \in DOMAIN StatFields } |->
        base + (CHOOSE i \in DOMAIN StatFields : StatFields[i] = f)]

StatsRecords == { StatsRecord(10), StatsRecord(40) }

SeqsUpTo(S, n) == UNION { [1..k -> S] : k \in 0..n }

-----------------------------------------------------------------------------
(* HTTP responses *)

Body(json, items) == [json |-> json, items |-> items]
Unparseable == Body("none", <<>>)
JsonObject == Body("object", <<>>)
ArrayBody(items) == Body("array", items)

Response(ok, body) == [kind |-> "response", net |-> TRUE, ok |-> ok, body |-> body, err |-> ""]
Rejected(msg) == [kind |-> "response", net |-> FALSE, ok |-> FALSE, body |-> Unparseable, err |-> msg]
NoOutcome == [kind |-> "none", net |-> FALSE, ok |-> FALSE, body |-> Unparseable, err |-> ""]
PromptOutcome == [kind |-> "prompt", net |-> FALSE, ok |-> FALSE, body |-> Unparseable, err |-> ""]

NetworkErrors == {"Failed to fetch"}

ListBodies(S, n) == {Unparseable, JsonObject} \cup { ArrayBody(a) : a \in SeqsUpTo(S, n) }

PlayerResponses ==
    {Rejected("Failed to fetch")}
        \cup { Response(ok, b) : ok \in BOOLEAN, b \in ListBodies(Players, MaxPlayers) }

MatchResponses ==
    {Rejected("Failed to fetch")}
        \cup { Response(ok, b) : ok \in BOOLEAN, b \in ListBodies(Matches, MaxMatches) }

StatsBodies == {Unparseable, JsonObject} \cup { Body("record", <<s>>) : s \in StatsRecords }

StatsResponses ==
    {Rejected("Failed to fetch")}
        \cup { Response(ok, b) : ok \in BOOLEAN, b \in StatsBodies }

CreateResponses ==
    { Rejected(m) : m \in NetworkErrors } \cup { Response(ok, JsonObject) : ok \in BOOLEAN }

\* one response of each outcome a list request can have: fetch rejected, an
\* error status (with the API's JSON error object), an empty array, records
ListResponseKinds(records) ==
    { Rejected("Failed to fetch"), Response(FALSE, JsonObject),
      Response(TRUE, ArrayBody(<<>>)), Response(TRUE, ArrayBody(records)) }

PlayerResponseKinds == ListResponseKinds(<<An>>)

\* two completed matches, so that the selector offers two matches
MatchResponseKinds ==
    ListResponseKinds(<<Hanoi, Vinh>>) \cup {Response(TRUE, Unparseable)}

\* the statistics the API holds for a match id
StatsOf(matchId) == IF matchId = ToString(Hanoi.id) THEN StatsRecord(10) ELSE StatsRecord(40)

\* one response of each outcome of a statistics request for matchId
StatsResponseKinds(matchId) ==
    { Rejected("Failed to fetch"), Response(FALSE, JsonObject), Response(TRUE, Unparseable),
      Response(TRUE, Body("record", <<StatsOf(matchId)>>)) }

-----------------------------------------------------------------------------
(* DOM helpers *)

Elem(tag, cls, kids) == [tag |-> tag, cls |-> cls, kids |-> kids]

\* the markup of index.html, which the script replaces
InitialHTML == << Elem("html", <<>>, <<>>) >>

\* container.innerHTML = `<p class="no-data-msg">${message}</p>`
showMessage(message) == << Elem("p", <<"no-data-msg">>, <<message>>) >>

\* <div class="stat-card"><h4>label</h4><p>value</p></div>
createStatCard(label, value) == Elem("div", <<"stat-card">>, <<label, value>>)

\* the result of a try block: it threw, or it ran to its end (or its return)
Threw(dom) == [threw |-> TRUE, dom |-> dom]
Ran(dom) == [threw |-> FALSE, dom |-> dom]

Request(op, n, arg) == [op |-> op, n |-> n, arg |-> arg]

Ops == {"players", "matches", "stats", "create"}
Containers == {"players", "matches", "stats"}

-----------------------------------------------------------------------------
(* Player management *)

\* the <tr> appended per player: six template substitutions in this order
playerRow(p) ==
    Elem("tr", <<>>, <<ToString(p.id), p.name, ToString(p.age), p.position,
                       ToString(p.jersey_number), p.injury_status>>)

\* data.forEach(p => { ...; playersTableBody.appendChild(row) })
RECURSIVE appendPlayerRows(_, _)
appendPlayerRows(dom, data) ==
    IF data = <<>> THEN dom
    ELSE appendPlayerRows(Append(dom, playerRow(Head(data))), Tail(data))

\* as loadPlayersTry, without playersTableBody.innerHTML = '': rows are appended
\* to what the table holds
loadPlayersTryKeepsRows(res, old) ==
    IF ~res.net THEN Threw(old)
    ELSE IF res.body.json = "none" THEN Threw(old)
    ELSE IF res.body.json # "array" THEN Threw(old)
         ELSE IF Len(res.body.items) = 0 THEN Ran(showMessage("No players found."))
         ELSE Ran(appendPlayerRows(old, res.body.items))

\* the try block of loadPlayers, resumed with the response res; old is the
\* table's content when the response arrives
loadPlayersTry(res, old) ==
    IF ~res.net THEN Threw(old)                       \* fetch() rejected
    ELSE IF res.body.json = "none" THEN Threw(old)    \* res.json() rejected
    ELSE \* playersTableBody.innerHTML = ''
         IF res.body.json # "array" THEN Threw(<<>>)  \* data.forEach is not a function
         ELSE IF Len(res.body.items) = 0 THEN Ran(showMessage("No players found."))
         ELSE Ran(appendPlayerRows(<<>>, res.body.items))

\* as loadPlayers, without the data.length === 0 branch
loadPlayersWithoutEmptyCase(res, old) ==
    LET t == loadPlayersTry(res, old)
    IN  IF t.threw
        THEN [dom |-> showMessage("Error loading players."), escaped |-> FALSE]
        ELSE [dom |-> IF res.body.items = <<>> THEN <<>> ELSE t.dom, escaped |-> FALSE]

\* loadPlayers from its first await to its end: the table and whether an error escaped
loadPlayers(res, old) ==
    LET t == loadPlayersTry(res, old)
    IN  IF t.threw
        THEN [dom |-> showMessage("Error loading players."), escaped |-> FALSE]
        ELSE [dom |-> t.dom, escaped |-> FALSE]

EmptyForm == [name |-> "", age |-> "", dob |-> "", position |-> "", number |-> ""]
FilledForm == [name |-> "Cuong", age |-> "19", dob |-> "2005-04-02",
               position |-> "MF", number |-> "8"]

\* as createThrows, without the check of res.ok
createThrowsOnRejectOnly(res) == ~res.net

\* if (!res.ok) throw new Error(...), or fetch() itself rejected
createThrows(res) == ~res.net \/ ~res.ok

\* err.message in the submit handler's catch
createErrorMessage(res) == IF ~res.net THEN res.err ELSE "Failed to create player"

\* as createAlert, without err.message
createAlertWithoutMessage(res) == "Error adding player"

\* alert("Error adding player: " + err.message)
createAlert(res) == "Error adding player: " \o createErrorMessage(res)

-----------------------------------------------------------------------------
(* Match management *)

matchCardClass(m) == <<"match-card", IF m.is_completed THEN "past" ELSE "upcoming">>
matchStatusText(m) == IF m.is_completed THEN "Completed" ELSE "Scheduled"
\* as matchScore, the score shown whether or not the match is completed
matchScoreAlways(m) == ToString(m.our_score) \o " - " \o ToString(m.opponent_score)

matchScore(m) ==
    IF m.is_completed
    THEN ToString(m.our_score) \o " - " \o ToString(m.opponent_score)
    ELSE "vs"

\* the card appended per match: opponent, date, venue, status, score
matchCard(m) ==
    Elem("div", matchCardClass(m),
         <<m.opponent_name, m.match_date, m.venue, matchStatusText(m), matchScore(m)>>)

Option(value, text) == [value |-> value, text |-> text]
PromptOption == Option("", "-- Select a Completed Match --")

\* opt.value = m.id; opt.textContent = `${m.match_date} vs ${m.opponent_name}`
matchOption(m) == Option(ToString(m.id), m.match_date \o " vs " \o m.opponent_name)

\* as matchGetsOption, without the if (m.is_completed)
matchAlwaysGetsOption(m) == TRUE

\* whether the forEach body appends an option for m
matchGetsOption(m) == m.is_completed

MatchDom(container, select) == [container |-> container, select |-> select]

\* matches.forEach(m => { ... })
RECURSIVE appendMatches(_, _)
appendMatches(dom, matches) ==
    IF matches = <<>> THEN dom
    ELSE LET m == Head(matches)
             select == IF matchGetsOption(m)
                       THEN Append(dom.select, matchOption(m))
                       ELSE dom.select
         IN  appendMatches(MatchDom(Append(dom.container, matchCard(m)), select),
                           Tail(matches))

\* as loadMatchesTry, the selector reset to the prompt before the request is
\* made, so that a rejected fetch or an unparseable body leaves the prompt alone
loadMatchesTryResetsFirst(res, old) ==
    LET cleared == MatchDom(<<>>, <<PromptOption>>)
    IN  IF ~res.net THEN Threw(MatchDom(old.container, cleared.select))
        ELSE IF res.body.json = "none" THEN Threw(MatchDom(old.container, cleared.select))
        ELSE IF res.body.json # "array" THEN Threw(cleared)
        ELSE IF Len(res.body.items) = 0
             THEN Ran(MatchDom(showMessage("No matches found."), cleared.select))
             ELSE Ran(appendMatches(cleared, res.body.items))

\* the try block of loadMatches, resumed with the response res
loadMatchesTry(res, old) ==
    IF ~res.net THEN Threw(old)
    ELSE IF res.body.json = "none" THEN Threw(old)
    ELSE LET cleared == MatchDom(<<>>, <<PromptOption>>)
         IN  IF res.body.json # "array" THEN Threw(cleared)
             ELSE IF Len(res.body.items) = 0
                  THEN Ran(MatchDom(showMessage("No matches found."), cleared.select))
                  ELSE Ran(appendMatches(cleared, res.body.items))

\* as loadMatches, the catch showing the message of the empty list
loadMatchesOneMessage(res, old) ==
    LET t == loadMatchesTry(res, old)
    IN  IF t.threw
        THEN [dom |-> MatchDom(showMessage("No matches found."), t.dom.select),
              escaped |-> FALSE]
        ELSE [dom |-> t.dom, escaped |-> FALSE]

loadMatches(res, old) ==
    LET t == loadMatchesTry(res, old)
    IN  IF t.threw
        THEN [dom |-> MatchDom(showMessage("Error loading matches."), t.dom.select),
              escaped |-> FALSE]
        ELSE [dom |-> t.dom, escaped |-> FALSE]

-----------------------------------------------------------------------------
(* Statistics *)

StatLabels == <<"Expected Goals (xG)", "Shots on Target", "Ball Possession (%)",
                "Total Passes", "Successful Passes", "Pass Success Rate (%)",
                "Interceptions", "Successful Tackles", "Aerial Duels Won",
                "Total Fouls", "Yellow Cards", "Red Cards">>

\* `${s.field}`: a JSON object without the field gives "undefined"
statValue(body, field) ==
    IF body.json = "record" THEN ToString(body.items[1][field]) ELSE "undefined"

\* as statCards, with the values of total passes and successful passes exchanged
statCardsPassesExchanged(body) ==
    [i \in DOMAIN StatLabels |->
        createStatCard(StatLabels[i],
                       statValue(body, StatFields[CASE i = 4 -> 5 [] i = 5 -> 4 [] OTHER -> i]))]

\* stats.forEach(([label, val]) => statsDisplay.appendChild(createStatCard(label, val)))
statCards(body) ==
    [i \in DOMAIN StatLabels |-> createStatCard(StatLabels[i], statValue(body, StatFields[i]))]

\* as statsNeedsNoRequest, without the early return
statsAlwaysRequests(matchId) == FALSE

\* if (!matchId): the prompt is shown and no request is made
statsNeedsNoRequest(matchId) == matchId = ""

\* as loadMatchStatsTry, without statsDisplay.innerHTML = '': the cards are
\* appended to what the display holds
loadMatchStatsTryAppends(res, old) ==
    IF ~res.net THEN Threw(old)
    ELSE IF ~res.ok THEN Threw(old)
    ELSE IF res.body.json = "none" THEN Threw(old)
    ELSE Ran(old \o statCards(res.body))

\* as loadMatchStatsTry, without the check of res.ok
loadMatchStatsTryIgnoresStatus(res, old) ==
    IF ~res.net THEN Threw(old)
    ELSE IF res.body.json = "none" THEN Threw(old)
    ELSE Ran(statCards(res.body))

\* the try block of loadMatchStats, resumed with the response res
loadMatchStatsTry(res, old) ==
    IF ~res.net THEN Threw(old)
    ELSE IF ~res.ok THEN Threw(old)                   \* throw new Error("Stats not found")
    ELSE IF res.body.json = "none" THEN Threw(old)
    ELSE Ran(statCards(res.body))

loadMatchStats(res, old) ==
    LET t == loadMatchStatsTry(res, old)
    IN  IF t.threw
        THEN [dom |-> showMessage("No statistics available for this match."),
              escaped |-> FALSE]
        ELSE [dom |-> t.dom, escaped |-> FALSE]

-----------------------------------------------------------------------------
(* State machine *)

Init ==
    /\ loaded = FALSE
    /\ playersTableBody = InitialHTML
    /\ playerForm = EmptyForm
    /\ matchesContainer = InitialHTML
    /\ matchSelect \in {<<>>, <<PromptOption>>}
    /\ selectedValue = ""
    /\ statsDisplay = InitialHTML
    /\ inflight = {}
    /\ alerts = <<>>
    /\ uncaught = 0
    /\ issued = [op \in Ops |-> 0]
    /\ submits = 0
    /\ changes = 0
    /\ createOk = 0
    /\ createFail = 0
    /\ resets = 0
    /\ latestOutcome = [c \in Containers |-> NoOutcome]
    /\ lastHandled = [op \in Ops |-> NoOutcome]

Bump(f, k) == [f EXCEPT ![k] = @ + 1]
Escapes(run) == IF run.escaped THEN 1 ELSE 0

\* the outcome of the most recently issued request: known once it is answered
Latest(req, res, latest) ==
    IF req.n = latest THEN [latestOutcome EXCEPT ![req.op] = res] ELSE latestOutcome

\* as PageLoad, with loadMatches() called only after loadPlayers() has finished:
\* the handler runs to the await of the player list alone
PageLoadPlayersFirst ==
    /\ ~loaded
    /\ loaded' = TRUE
    /\ inflight' = inflight \cup {Request("players", issued["players"] + 1, "load")}
    /\ issued' = Bump(issued, "players")
    /\ latestOutcome' = [latestOutcome EXCEPT !["players"] = NoOutcome]
    /\ UNCHANGED <<playersTableBody, playerForm, matchesContainer, matchSelect,
                   selectedValue, statsDisplay, alerts, uncaught, submits, changes,
                   createOk, createFail, resets, lastHandled>>

\* DOMContentLoaded: loadPlayers(); loadMatches(); both run to their first await
PageLoad ==
    /\ ~loaded
    /\ loaded' = TRUE
    /\ inflight' = inflight \cup {Request("players", issued["players"] + 1, "load"),
                                   Request("matches", issued["matches"] + 1, "load")}
    /\ issued' = [issued EXCEPT !["players"] = @ + 1, !["matches"] = @ + 1]
    /\ latestOutcome' = [latestOutcome EXCEPT !["players"] = NoOutcome,
                                              !["matches"] = NoOutcome]
    /\ UNCHANGED <<playersTableBody, playerForm, matchesContainer, matchSelect,
                   selectedValue, statsDisplay, alerts, uncaught, submits, changes,
                   createOk, createFail, resets, lastHandled>>

\* the user fills in the form
UserTypes ==
    /\ playerForm # FilledForm
    /\ playerForm' = FilledForm
    /\ UNCHANGED <<loaded, playersTableBody, matchesContainer, matchSelect,
                   selectedValue, statsDisplay, inflight, alerts, uncaught, issued,
                   submits, changes, createOk, createFail, resets, latestOutcome,
                   lastHandled>>

\* submit handler up to its await: the POST is sent, the form is not submitted natively
Submit ==
    /\ submits < MaxSubmits
    /\ submits' = submits + 1
    /\ inflight' = inflight \cup {Request("create", issued["create"] + 1, "")}
    /\ issued' = Bump(issued, "create")
    /\ UNCHANGED <<loaded, playersTableBody, playerForm, matchesContainer, matchSelect,
                   selectedValue, statsDisplay, alerts, uncaught, changes, createOk,
                   createFail, resets, latestOutcome, lastHandled>>

\* the POST is answered: alert, or loadPlayers() called up to its await
CreateResponse(req, res) ==
    /\ req.op = "create"
    /\ createOk' = createOk + (IF res.net /\ res.ok THEN 1 ELSE 0)
    /\ createFail' = createFail + (IF res.net /\ res.ok THEN 0 ELSE 1)
    /\ IF createThrows(res)
       THEN /\ alerts' = Append(alerts, createAlert(res))
            /\ inflight' = inflight \ {req}
            /\ UNCHANGED <<issued, latestOutcome>>
       ELSE /\ inflight' = (inflight \ {req})
                               \cup {Request("players", issued["players"] + 1, "submit")}
            /\ issued' = Bump(issued, "players")
            /\ latestOutcome' = [latestOutcome EXCEPT !["players"] = NoOutcome]
            /\ UNCHANGED alerts
    /\ lastHandled' = [lastHandled EXCEPT !["create"] = res]
    /\ UNCHANGED <<loaded, playersTableBody, playerForm, matchesContainer, matchSelect,
                   selectedValue, statsDisplay, uncaught, submits, changes, resets>>

\* GET /players/ is answered: loadPlayers renders; a submit handler awaiting it
\* then resets the form
PlayersResponse(req, res) ==
    /\ req.op = "players"
    /\ LET run == loadPlayers(res, playersTableBody)
       IN  /\ playersTableBody' = run.dom
           /\ uncaught' = uncaught + Escapes(run)
    /\ IF req.arg = "submit"
       THEN playerForm' = EmptyForm /\ resets' = resets + 1
       ELSE UNCHANGED <<playerForm, resets>>
    /\ inflight' = inflight \ {req}
    /\ latestOutcome' = Latest(req, res, issued["players"])
    /\ lastHandled' = [lastHandled EXCEPT !["players"] = res]
    /\ UNCHANGED <<loaded, matchesContainer, matchSelect, selectedValue, statsDisplay,
                   alerts, issued, submits, changes, createOk, createFail>>

\* GET /matches/upcoming is answered; rewriting the options deselects
MatchesResponse(req, res) ==
    /\ req.op = "matches"
    /\ LET run == loadMatches(res, MatchDom(matchesContainer, matchSelect))
       IN  /\ matchesContainer' = run.dom.container
           /\ matchSelect' = run.dom.select
           /\ uncaught' = uncaught + Escapes(run)
    /\ selectedValue' = IF res.net /\ res.body.json # "none" THEN "" ELSE selectedValue
    /\ inflight' = inflight \ {req}
    /\ latestOutcome' = Latest(req, res, issued["matches"])
    /\ lastHandled' = [lastHandled EXCEPT !["matches"] = res]
    /\ UNCHANGED <<loaded, playersTableBody, playerForm, statsDisplay, alerts, issued,
                   submits, changes, createOk, createFail, resets>>

\* change on #match-select with value v: loadMatchStats(v) up to its await or return
MatchSelectChange(v) ==
    /\ changes < MaxChanges
    /\ \E k \in DOMAIN matchSelect : matchSelect[k].value = v
    /\ changes' = changes + 1
    /\ selectedValue' = v
    /\ IF statsNeedsNoRequest(v)
       THEN /\ statsDisplay' = showMessage("Select a match to view statistics.")
            /\ latestOutcome' = [latestOutcome EXCEPT !["stats"] = PromptOutcome]
            /\ lastHandled' = [lastHandled EXCEPT !["stats"] = PromptOutcome]
            /\ UNCHANGED <<inflight, issued>>
       ELSE /\ inflight' = inflight \cup {Request("stats", changes + 1, v)}
            /\ issued' = Bump(issued, "stats")
            /\ latestOutcome' = [latestOutcome EXCEPT !["stats"] = NoOutcome]
            /\ UNCHANGED <<statsDisplay, lastHandled>>
    /\ UNCHANGED <<loaded, playersTableBody, playerForm, matchesContainer, matchSelect,
                   alerts, uncaught, submits, createOk, createFail, resets>>

\* as StatsResponse, with a request-generation guard: the response of a request
\* that a later change event superseded is dropped
StatsResponseUnlessSuperseded(req, res) ==
    /\ req.op = "stats"
    /\ statsDisplay' = IF req.n = changes THEN loadMatchStats(res, statsDisplay).dom
                                          ELSE statsDisplay
    /\ inflight' = inflight \ {req}
    /\ latestOutcome' = Latest(req, res, changes)
    /\ lastHandled' = [lastHandled EXCEPT !["stats"] = res]
    /\ UNCHANGED <<loaded, playersTableBody, playerForm, matchesContainer, matchSelect,
                   selectedValue, alerts, uncaught, issued, submits, changes, createOk,
                   createFail, resets>>

\* GET /matches/{id}/stats is answered
StatsResponse(req, res) ==
    /\ req.op = "stats"
    /\ LET run == loadMatchStats(res, statsDisplay)
       IN  /\ statsDisplay' = run.dom
           /\ uncaught' = uncaught + Escapes(run)
    /\ inflight' = inflight \ {req}
    /\ latestOutcome' = Latest(req, res, changes)
    /\ lastHandled' = [lastHandled EXCEPT !["stats"] = res]
    /\ UNCHANGED <<loaded, playersTableBody, playerForm, matchesContainer, matchSelect,
                   selectedValue, alerts, issued, submits, changes, createOk,
                   createFail, resets>>

OptionValues == {""} \cup { ToString(m.id) : m \in Matches }

\* every action of the page, each answered with one response of every kind
Next ==
    \/ PageLoad
    \/ UserTypes
    \/ Submit
    \/ \E req \in inflight : \E res \in CreateResponses : CreateResponse(req, res)
    \/ \E req \in inflight : \E res \in PlayerResponseKinds : PlayersResponse(req, res)
    \/ \E req \in inflight : \E res \in MatchResponseKinds : MatchesResponse(req, res)
    \/ \E v \in OptionValues : MatchSelectChange(v)
    \/ \E req \in inflight : \E res \in StatsResponseKinds(req.arg) : StatsResponse(req, res)

Spec == Init /\ [][Next]_vars

\* the player half of the page, answered with every bounded player list
NextPlayers ==
    \/ PageLoad
    \/ UserTypes
    \/ Submit
    \/ \E req \in inflight : \E res \in CreateResponses : CreateResponse(req, res)
    \/ \E req \in inflight : \E res \in PlayerResponses : PlayersResponse(req, res)

SpecPlayers == Init /\ [][NextPlayers]_vars

\* the match half of the page, answered with every bounded match list
NextMatches ==
    \/ PageLoad
    \/ \E req \in inflight : \E res \in MatchResponses : MatchesResponse(req, res)
    \/ \E v \in OptionValues : MatchSelectChange(v)
    \/ \E req \in inflight : \E res \in StatsResponses : StatsResponse(req, res)

SpecMatches == Init /\ [][NextMatches]_vars

-----------------------------------------------------------------------------
(* Properties *)

\* no request is in flight
Quiescent == inflight = {}

\* GET /players/ requests issued by a submit handler, not by the page load
Refreshes == issued["players"] - (IF loaded THEN 1 ELSE 0)

\* C1: every submit issues exactly one POST /players/; a list refresh
\* GET /players/ is issued once per successful POST response, when that
\* response is handled and not before; the form is reset only for submits whose
\* POST succeeded, never after an error status or a network failure.
C1_OneCreateThenOneRefresh ==
    /\ issued["create"] = submits
    /\ Refreshes = createOk
    /\ resets <= createOk
    /\ resets = Refreshes - Cardinality({ r \in inflight : r.op = "players" /\ r.arg = "submit" })

\* a submit succeeded, its refresh was answered and the typed form was reset
C1_Witness ==
    /\ loaded /\ submits = 1 /\ createOk = 1 /\ issued["players"] = 2
    /\ resets = 1 /\ playerForm = EmptyForm /\ Quiescent

\* C4: a change event with the empty value puts the prompt placeholder into the
\* statistics display and issues no request: the requests issued and the
\* requests in flight are the same before and after the event.
C4_EmptySelectionNoRequest ==
    [][ (changes' = changes + 1 /\ selectedValue' = "")
            => /\ statsDisplay' = showMessage("Select a match to view statistics.")
               /\ issued' = issued
               /\ inflight' = inflight ]_vars

\* a match was selected, then the empty value: one request in all, the prompt shown
C4_Witness ==
    /\ changes = 2 /\ selectedValue = "" /\ issued["stats"] = 1
    /\ lastHandled["stats"] = PromptOutcome
    /\ statsDisplay = showMessage("Select a match to view statistics.")

\* the message of the error the submit handler catches for the response res
C6_ErrorMessage(res) == IF res.net THEN "Failed to create player" ELSE res.err

\* C6: a creation request that fails (error status or network rejection) raises
\* exactly one alert, "Error adding player: " followed by the error's message,
\* issues no request (no refresh, no second POST) and leaves the player table
\* and the form fields as they are; the submit event itself leaves them too.
C6_CreateFailureAlertsOnce ==
    /\ [](Len(alerts) = createFail)
    /\ [][ /\ createFail' # createFail
                => /\ alerts' = Append(alerts, "Error adding player: "
                                                  \o C6_ErrorMessage(lastHandled'["create"]))
                   /\ issued' = issued
                   /\ inflight' \subseteq inflight
                   /\ playersTableBody' = playersTableBody
                   /\ playerForm' = playerForm
           /\ submits' # submits
                => playersTableBody' = playersTableBody /\ playerForm' = playerForm ]_vars

\* the POST was answered with an error status while the table held rows and the
\* form was filled in: one alert, the rows and the fields still there
C6_Witness ==
    /\ alerts = <<"Error adding player: Failed to create player">>
    /\ createFail = 1 /\ issued["create"] = 1 /\ issued["players"] = 1
    /\ playerForm = FilledForm
    /\ playersTableBody = <<playerRow(An)>>
    /\ Quiescent

\* what a container shows
Shown(c) ==
    CASE c = "players" -> playersTableBody
      [] c = "matches" -> matchesContainer
      [] c = "stats" -> statsDisplay

\* what a container shows when the outcome out is rendered into it
Rendering(c, out) ==
    CASE out.kind = "prompt" -> showMessage("Select a match to view statistics.")
      [] out.kind = "response" /\ c = "players" -> loadPlayers(out, <<>>).dom
      [] out.kind = "response" /\ c = "matches" ->
            loadMatches(out, MatchDom(<<>>, <<>>)).dom.container
      [] out.kind = "response" /\ c = "stats" -> loadMatchStats(out, <<>>).dom

\* C2 as stated: in every quiescent state each container shows the outcome of
\* the most recently issued request for it (for the statistics display, of the
\* last selection made).
C2_ShowsLatestIssued ==
    Quiescent =>
        \A c \in Containers :
            latestOutcome[c].kind # "none" => Shown(c) = Rendering(c, latestOutcome[c])

\* C2: in every quiescent state each container shows the outcome of the
\* response handled last for it (for the statistics display, the prompt if an
\* empty selection came after that response), and nothing of earlier outcomes;
\* that response need not belong to the most recently issued request.
C2_ShowsLastHandled ==
    Quiescent =>
        \A c \in Containers :
            lastHandled[c].kind # "none" => Shown(c) = Rendering(c, lastHandled[c])

\* all is answered, and the table and the statistics each show a response that
\* overtook the one of a later request
C2_Witness ==
    /\ Quiescent /\ loaded
    /\ issued["players"] = 2 /\ latestOutcome["players"] # lastHandled["players"]
    /\ changes = 2 /\ latestOutcome["stats"] # lastHandled["stats"]
    /\ \A c \in Containers : Shown(c) = Rendering(c, lastHandled[c])

\* the three read outcomes of C3
ReadRejected(res) == res.kind = "response" /\ ~res.net
ReadErrorStatus(res) == res.kind = "response" /\ res.net /\ ~res.ok
ReadEmptyArray(res) ==
    res.kind = "response" /\ res.net /\ res.body.json = "array" /\ res.body.items = <<>>

ErrorText(c) == IF c = "players" THEN "Error loading players." ELSE "Error loading matches."
EmptyText(c) == IF c = "players" THEN "No players found." ELSE "No matches found."

\* one response of each of the three read outcomes
ReadOutcomes ==
    { Rejected("Failed to fetch"), Response(FALSE, JsonObject), Response(TRUE, ArrayBody(<<>>)) }

\* C3 as stated: network failure, error status and empty array all leave the
\* same placeholder in the section's container: what the container shows after
\* one of them is what each of the three leaves.
C3_OnePlaceholder ==
    \A c \in {"players", "matches"} :
        (ReadRejected(lastHandled[c]) \/ ReadErrorStatus(lastHandled[c])
                \/ ReadEmptyArray(lastHandled[c]))
            => \A res \in ReadOutcomes : Shown(c) = Rendering(c, res)

\* C3: for the player list and the match list, a network failure and an error
\* status whose body is no array leave the same placeholder, "Error loading
\* players." or "Error loading matches."; an empty array leaves another one,
\* "No players found." or "No matches found.".
C3_ErrorAndEmptyPlaceholders ==
    \A c \in {"players", "matches"} :
        LET res == lastHandled[c]
        IN  /\ (ReadRejected(res) \/ (ReadErrorStatus(res) /\ res.body.json # "array"))
                    => Shown(c) = showMessage(ErrorText(c))
            /\ ReadEmptyArray(res) => Shown(c) = showMessage(EmptyText(c))
            /\ ErrorText(c) # EmptyText(c)

\* the player request was rejected and the match list came back empty
C3_Witness ==
    /\ ReadRejected(lastHandled["players"])
    /\ playersTableBody = showMessage("Error loading players.")
    /\ ReadEmptyArray(lastHandled["matches"])
    /\ matchesContainer = showMessage("No matches found.")

\* the failures of a statistics request
StatsFailed(res) ==
    res.kind = "response" /\ (~res.net \/ ~res.ok \/ res.body.json = "none")

\* C5: after a statistics request for a match id failed (network rejection,
\* error status or unparseable body), the statistics display holds exactly the
\* placeholder "No statistics available for this match.", the same for every
\* kind of failure, and no error escaped loadMatchStats.
C5_StatsFailurePlaceholder ==
    StatsFailed(lastHandled["stats"])
        => /\ statsDisplay = showMessage("No statistics available for this match.")
           /\ uncaught = 0

\* an error status arrived with a statistics record as its body
C5_Witness ==
    /\ lastHandled["stats"].kind = "response"
    /\ lastHandled["stats"].net /\ ~lastHandled["stats"].ok
    /\ lastHandled["stats"].body.json = "record"
    /\ statsDisplay = showMessage("No statistics available for this match.")

\* the response handled last for an operation is an array
IsArray(res) == res.kind = "response" /\ res.net /\ res.body.json = "array"

Completed(m) == m.is_completed = TRUE

\* C7: after a match list was rendered, the selector holds the prompt option and
\* then one option per completed match of the response, in response order, with
\* the match id as value and "<match_date> vs <opponent_name>" as label; no
\* match that is not completed has an option.
C7_OptionsAreCompletedMatches ==
    IsArray(lastHandled["matches"]) =>
        LET done == SelectSeq(lastHandled["matches"].body.items, Completed)
        IN  /\ Len(matchSelect) = 1 + Len(done)
            /\ matchSelect[1] = PromptOption
            /\ \A i \in DOMAIN done :
                  /\ matchSelect[i + 1].value = ToString(done[i].id)
                  /\ matchSelect[i + 1].text
                        = done[i].match_date \o " vs " \o done[i].opponent_name

\* a response with a scheduled match between two completed ones was rendered
C7_Witness ==
    /\ IsArray(lastHandled["matches"])
    /\ lastHandled["matches"].body.items = <<Vinh, Hue>>
    /\ matchSelect = <<PromptOption, Option("3", "2024-02-01 vs Vinh")>>

\* C8: after an empty array from the players endpoint or from the matches
\* endpoint, the container holds exactly the section's placeholder, "No players
\* found." or "No matches found.", and no row or card, whatever it held before.
C8_EmptyArrayPlaceholder ==
    \A c \in {"players", "matches"} :
        ReadEmptyArray(lastHandled[c])
            => /\ Len(Shown(c)) = 1
               /\ Shown(c)[1] = Elem("p", <<"no-data-msg">>, <<EmptyText(c)>>)

\* both lists came back empty, the player list on the refresh after a create
C8_Witness ==
    /\ ReadEmptyArray(lastHandled["players"]) /\ resets = 1
    /\ playersTableBody = showMessage("No players found.")
    /\ ReadEmptyArray(lastHandled["matches"])
    /\ matchesContainer = showMessage("No matches found.")

Rows(dom) == SelectSeq(dom, LAMBDA e : e.tag = "tr")

\* C9: after a successful player-list response that is an array of N records,
\* the table holds exactly N rows, one per record in response order, each with
\* the cells id, name, age, position, jersey_number, injury_status in that
\* order, and no row of an earlier render.
C9_OneRowPerPlayer ==
    (IsArray(lastHandled["players"]) /\ lastHandled["players"].ok) =>
        LET data == lastHandled["players"].body.items
            rows == Rows(playersTableBody)
        IN  /\ Len(rows) = Len(data)
            /\ Len(data) > 0 => Len(playersTableBody) = Len(data)
            /\ \A i \in DOMAIN data :
                  rows[i].kids = <<ToString(data[i].id), data[i].name,
                                   ToString(data[i].age), data[i].position,
                                   ToString(data[i].jersey_number),
                                   data[i].injury_status>>

\* the refresh after a create rendered two players
C9_Witness ==
    /\ resets = 1 /\ lastHandled["players"] = Response(TRUE, ArrayBody(<<Binh, An>>))
    /\ Len(playersTableBody) = 2
    /\ playersTableBody[1].kids = <<"2", "Binh", "30", "FW", "9", "INJURED">>

\* C10: for every match of a rendered match list, the card's score text is
\* "<our_score> - <opponent_score>" when the match is completed and "vs" when it
\* is not; its status label is "Completed" with the style 'past' in the first
\* case and "Scheduled" with the style 'upcoming' in the second.
C10_ScoreAndStatus ==
    (IsArray(lastHandled["matches"]) /\ lastHandled["matches"].body.items # <<>>) =>
        LET matches == lastHandled["matches"].body.items
        IN  /\ Len(matchesContainer) = Len(matches)
            /\ \A i \in DOMAIN matches :
                  LET m == matches[i]
                      card == matchesContainer[i]
                  IN  IF m.is_completed
                      THEN /\ card.kids[5] = ToString(m.our_score) \o " - "
                                                \o ToString(m.opponent_score)
                           /\ card.kids[4] = "Completed"
                           /\ card.cls = <<"match-card", "past">>
                      ELSE /\ card.kids[5] = "vs"
                           /\ card.kids[4] = "Scheduled"
                           /\ card.cls = <<"match-card", "upcoming">>

\* a completed 3 - 1 match and a scheduled match were rendered
C10_Witness ==
    /\ lastHandled["matches"].body.items = <<Hanoi, Hue>>
    /\ Len(matchesContainer) = 2
    /\ matchesContainer[1].kids[5] = "3 - 1"
    /\ matchesContainer[2].kids[5] = "vs"

\* C11: no statistics request is cancelled: a change event removes no request
\* in flight, and every statistics request leaves flight only by having the
\* outcome of its response written to the statistics display, whatever was
\* selected in between.  So match A's statistics can be rendered after match
\* B's, B being the one selected (C11_Witness).
C11_NoStatsRequestCancelled ==
    [][ /\ \A req \in inflight \ inflight' :
              req.op = "stats" =>
                  /\ lastHandled'["stats"].kind = "response"
                  /\ statsDisplay' = Rendering("stats", lastHandled'["stats"])
        /\ changes' # changes => inflight \subseteq inflight' ]_vars

\* Hanoi was selected, then Vinh; Vinh's statistics arrived and then Hanoi's:
\* the display holds Hanoi's cards while the selector shows Vinh
C11_Witness ==
    /\ Quiescent /\ changes = 2 /\ issued["stats"] = 2
    /\ selectedValue = ToString(Vinh.id)
    /\ latestOutcome["stats"] = Response(TRUE, Body("record", <<StatsOf(ToString(Vinh.id))>>))
    /\ lastHandled["stats"] = Response(TRUE, Body("record", <<StatsOf(ToString(Hanoi.id))>>))
    /\ statsDisplay = statCards(Body("record", <<StatsOf(ToString(Hanoi.id))>>))

\* the request the page load issued for a list, while it is in flight
LoadPending(op) == \E req \in inflight : req.op = op /\ req.arg = "load"

\* C12: the page load issues the player-list and the match-list request
\* together, before either response is handled; whichever of the two is still
\* in flight can be answered next, so the responses are handled in either
\* order; and what the player table, the matches container and the match
\* selector hold afterwards is determined by each list's own response alone,
\* hence the same for both orders and untouched by the other request's outcome
\* or failure.
C12_LoadRequestsIndependent ==
    /\ loaded => \A op \in {"players", "matches"} :
                    LoadPending(op) \/ lastHandled[op].kind = "response"
    /\ \A req \in inflight :
          /\ (req.op = "players" /\ req.arg = "load")
                => \A res \in PlayerResponseKinds : ENABLED PlayersResponse(req, res)
          /\ req.op = "matches"
                => \A res \in MatchResponseKinds : ENABLED MatchesResponse(req, res)
    /\ (lastHandled["players"].kind = "response" /\ submits = 0)
          => playersTableBody = loadPlayers(lastHandled["players"], InitialHTML).dom
    /\ lastHandled["matches"].kind = "response"
          => LET dom == loadMatches(lastHandled["matches"],
                                    MatchDom(InitialHTML, matchSelect)).dom
             IN  matchesContainer = dom.container /\ matchSelect = dom.select

\* only the page was loaded; the match list failed and the player list was
\* rendered all the same
C12_Witness ==
    /\ loaded /\ submits = 0 /\ changes = 0 /\ Quiescent
    /\ lastHandled["matches"] = Rejected("Failed to fetch")
    /\ matchesContainer = showMessage("Error loading matches.")
    /\ playersTableBody = <<playerRow(An)>>

\* the match list was answered while the player list, requested before it, was
\* still in flight
C12_MatchesFirst ==
    /\ LoadPending("players") /\ lastHandled["matches"].kind = "response"

\* the player list was answered while the match list was still in flight
C12_PlayersFirst ==
    /\ LoadPending("matches") /\ lastHandled["players"].kind = "response"

\* a list request failed: fetch rejected, error status, or a body that is not
\* a JSON array
ReadFailed(res) ==
    res.kind = "response" /\ (~res.net \/ ~res.ok \/ res.body.json # "array")

\* the container holds one placeholder message and nothing else
Placeholder(dom) == Len(dom) = 1 /\ dom[1].tag = "p" /\ dom[1].cls = <<"no-data-msg">>

\* C13: every operation finishes every failure of its request with a
\* placeholder message in its container (player list, match list, statistics)
\* or with an alert (create player); no error is left uncaught and no container
\* is left cleared and empty.
C13_FailuresDegrade ==
    /\ uncaught = 0
    /\ Quiescent => Len(alerts) = createFail
    /\ \A c \in Containers : Shown(c) # <<>>
    /\ \A c \in {"players", "matches"} :
          ReadFailed(lastHandled[c]) => Placeholder(Shown(c))
    /\ StatsFailed(lastHandled["stats"]) => Placeholder(statsDisplay)

\* what the code does for all failures but one: an error status is not looked
\* at by the list handlers, so an array sent with it is rendered
C13_FailuresDegradeUnlessArray ==
    /\ uncaught = 0
    /\ Quiescent => Len(alerts) = createFail
    /\ \A c \in Containers : Shown(c) # <<>>
    /\ \A c \in {"players", "matches"} :
          (ReadFailed(lastHandled[c]) /\ ~IsArray(lastHandled[c]))
              => Placeholder(Shown(c))
    /\ StatsFailed(lastHandled["stats"]) => Placeholder(statsDisplay)

\* GET /players/ answered with an error status and a player in the body: the
\* table shows the player's row
C13_ErrorStatusRendered ==
    /\ lastHandled["players"] = Response(FALSE, ArrayBody(<<An>>))
    /\ playersTableBody = <<playerRow(An)>>

\* requests issued so far, of all four kinds
TotalIssued(f) == f["players"] + f["matches"] + f["stats"] + f["create"]

\* C14 as stated: every user action (page load, form submit, selection change)
\* issues exactly one request.
C14_OneRequestPerAction ==
    [][ (loaded' # loaded \/ submits' # submits \/ changes' # changes)
            => TotalIssued(issued') = TotalIssued(issued) + 1 ]_vars

\* C14: the page load issues two requests, one for the player list and one for
\* the match list; a form submit issues one POST, and a successful POST
\* response issues one player-list refresh; a selection change issues one
\* statistics request for a non-empty value and none for the empty value; no
\* other step issues a request, and every request counted is put in flight.
C14_RequestsPerAction ==
    [][ /\ loaded' # loaded
            => issued' = [issued EXCEPT !["players"] = @ + 1, !["matches"] = @ + 1]
        /\ submits' # submits => issued' = Bump(issued, "create")
        /\ changes' # changes
            => issued' = IF selectedValue' = "" THEN issued ELSE Bump(issued, "stats")
        /\ createOk' # createOk => issued' = Bump(issued, "players")
        /\ (loaded' = loaded /\ submits' = submits /\ changes' = changes
                /\ createOk' = createOk)
            => issued' = issued
        /\ Cardinality(inflight' \ inflight) = TotalIssued(issued') - TotalIssued(issued)
      ]_vars

\* one page load, one successful submit, one selection of a match and one of
\* the prompt: five requests after four user actions
C14_Witness ==
    /\ loaded /\ submits = 1 /\ createOk = 1 /\ changes = 2 /\ selectedValue = ""
    /\ issued = [players |-> 2, matches |-> 1, stats |-> 1, create |-> 1]
    /\ Quiescent

StatsSucceeded(res) == res.kind = "response" /\ res.net /\ res.ok /\ res.body.json = "record"

\* <div class="stat-card"><h4>label</h4><p>value</p></div>, written out
Card(label, value) ==
    [tag |-> "div", cls |-> <<"stat-card">>, kids |-> <<label, ToString(value)>>]

\* C15: after a successful statistics response the statistics display holds
\* exactly twelve stat cards, in the order expected goals, shots on target, ball
\* possession, total passes, successful passes, pass success rate,
\* interceptions, successful tackles, aerial duels won, total fouls, yellow
\* cards, red cards, each with the value of its own field of that response, and
\* nothing of what the display held before.
C15_TwelveStatCards ==
    StatsSucceeded(lastHandled["stats"]) =>
        LET s == lastHandled["stats"].body.items[1]
        IN  /\ Len(statsDisplay) = 12
            /\ statsDisplay =
                 << Card("Expected Goals (xG)", s.expected_goals),
                    Card("Shots on Target", s.shots_on_target),
                    Card("Ball Possession (%)", s.ball_possession_percent),
                    Card("Total Passes", s.total_passes),
                    Card("Successful Passes", s.successful_passes),
                    Card("Pass Success Rate (%)", s.pass_success_rate),
                    Card("Interceptions", s.interceptions),
                    Card("Successful Tackles", s.successful_tackles),
                    Card("Aerial Duels Won", s.aerial_disputes_won),
                    Card("Total Fouls", s.total_fouls),
                    Card("Yellow Cards", s.yellow_cards),
                    Card("Red Cards", s.red_cards) >>

\* a second statistics response was rendered over what the first one left
C15_Witness ==
    /\ issued["stats"] = 2 /\ selectedValue # ""
    /\ \A req \in inflight : req.op # "stats"
    /\ lastHandled["stats"] = Response(TRUE, Body("record", <<StatsRecord(40)>>))
    /\ Len(statsDisplay) = 12
    /\ statsDisplay[4].kids = <<"Total Passes", "44">>
    /\ statsDisplay[12].kids = <<"Red Cards", "52">>

\* the option lists one match-list response can leave in the selector
SelectRenderings ==
    { loadMatches(res, MatchDom(<<>>, <<>>)).dom.select :
        res \in { r \in MatchResponseKinds : r.net /\ r.body.json # "none" } }

\* C16: a render is one uninterrupted step: in every state between two events,
\* whatever requests are in flight, each container is not empty and holds the
\* markup of index.html or the complete rendering of exactly one outcome (the
\* last one handled for it: a response's rows or cards, or one placeholder), and
\* the match selector holds its initial options or the options of exactly one
\* match-list response; no container mixes two responses or is seen cleared or
\* half built.
C16_RendersAtomic ==
    /\ \A c \in Containers :
          /\ Shown(c) # <<>>
          /\ Shown(c) = IF lastHandled[c].kind = "none"
                        THEN InitialHTML
                        ELSE Rendering(c, lastHandled[c])
    /\ matchSelect \in {<<>>, <<PromptOption>>} \cup SelectRenderings

\* with a statistics request in flight, the two player-list responses were
\* handled out of order and the one handled last replaced the other's rows
C16_Witness ==
    /\ \E req \in inflight : req.op = "stats"
    /\ issued["players"] = 2 /\ \A req \in inflight : req.op # "players"
    /\ latestOutcome["players"] = Response(TRUE, ArrayBody(<<An>>))
    /\ lastHandled["players"] = Response(TRUE, ArrayBody(<<>>))
    /\ playersTableBody = showMessage("No players found.")

\* the match-list response failed before anything was parsed
MatchesUnread(res) == res.kind = "response" /\ (~res.net \/ res.body.json = "none")

\* C17: the step that handles a match-list response which failed by network
\* rejection or by an unparseable body changes the matches container, to the
\* placeholder "Error loading matches.", and leaves the selector's options, the
\* selected value, the statistics display, the player table and the form as
\* they were; the step that handles an empty array shows "No matches found."
\* and also sets the selector to the single empty-valued prompt option, leaving
\* the statistics display and the player table as they were.
C17_MatchesFailureFrame ==
    [][ lastHandled'["matches"] # lastHandled["matches"] =>
          LET res == lastHandled'["matches"]
          IN  /\ MatchesUnread(res) =>
                    /\ matchesContainer' = showMessage("Error loading matches.")
                    /\ UNCHANGED <<matchSelect, selectedValue, statsDisplay,
                                   playersTableBody, playerForm>>
              /\ ReadEmptyArray(res) =>
                    /\ matchesContainer' = showMessage("No matches found.")
                    /\ matchSelect' = <<Option("", "-- Select a Completed Match --")>>
                    /\ UNCHANGED <<statsDisplay, playersTableBody>>
      ]_vars

\* the match list came back unparseable after the player list was rendered and
\* the prompt shown in the statistics display: only the matches container
\* changed, and the selector has no option still
C17_Witness ==
    /\ lastHandled["matches"] = Response(TRUE, Unparseable)
    /\ matchesContainer = showMessage("Error loading matches.")
    /\ matchSelect = <<>>
    /\ playersTableBody = <<playerRow(An)>>
    /\ statsDisplay = InitialHTML

\* an empty match list gave a selector without options its prompt option
C17_EmptyResets ==
    /\ lastHandled["matches"] = Response(TRUE, ArrayBody(<<>>))
    /\ matchSelect = <<PromptOption>>
    /\ matchesContainer = showMessage("No matches found.")
    /\ playersTableBody = <<playerRow(An)>>

====
